---- MODULE Spec2Model ----
(***************************************************************************)
(* driftwatcher ("drifty"): documentation-drift detection.                *)
(*                                                                         *)
(* A Rust &str is modelled as a sequence of one-character strings (ASCII   *)
(* only, so byte offsets and character offsets coincide).  Offsets are     *)
(* Rust's 0-based offsets: &s[a..b] is Slice(s, a, b).                     *)
(*                                                                         *)
(* Four specifications share the variables:                                *)
(*   EngineSpec  the metadata block engine (frontmatter.rs) applied to one *)
(*               document text;                                            *)
(*   EvalSpec    the resolver and the drift evaluator (check_entry)        *)
(*               applied to one entry against a file tree;                 *)
(*   HashSpec    hash_files applied to the files of a small tree in every  *)
(*               order;                                                    *)
(*   Spec        the commands init, add, check, report and validate run    *)
(*               one after another on a tree with two documents.           *)
(***************************************************************************)
EXTENDS Integers, Sequences, FiniteSets, TLC

\* ------------------------------------------------------------------ text

\* Option<usize>::None of str::find / str::rfind.
NoPos == -1

Min(S) == CHOOSE x \in S : \A y \in S : x <= y
Max(S) == CHOOSE x \in S : \A y \in S : x >= y

\* &s[from..to] and &s[from..]
Slice(s, from, to) == SubSeq(s, from + 1, to)
SliceFrom(s, from) == SubSeq(s, from + 1, Len(s))

\* str::starts_with, str::find, str::rfind, str::contains
starts_with(s, p) == Len(p) <= Len(s) /\ SubSeq(s, 1, Len(p)) = p

find(s, p) ==
    LET hits == {i \in 0..(Len(s) - Len(p)) : SubSeq(s, i + 1, i + Len(p)) = p}
    IN  IF hits = {} THEN NoPos ELSE Min(hits)

rfind(s, p) ==
    LET hits == {i \in 0..(Len(s) - Len(p)) : SubSeq(s, i + 1, i + Len(p)) = p}
    IN  IF hits = {} THEN NoPos ELSE Max(hits)

contains(s, p) == find(s, p) # NoPos

\* char::is_whitespace on the model's alphabet
IsWs(c) == c \in {" ", "\t", "\n", "\r"}

\* str::trim_start, str::trim_end, str::trim
trim_start(s) ==
    LET k == Min({i \in 0..Len(s) : i = Len(s) \/ ~IsWs(s[i + 1])})
    IN  SliceFrom(s, k)

trim_end(s) ==
    LET k == Max({i \in 0..Len(s) : i = 0 \/ ~IsWs(s[i])})
    IN  Slice(s, 0, k)

trim(s) == trim_end(trim_start(s))

\* str::lines: split after every "\n"; a line loses its "\n" and then one "\r"
\* before it; a last line without "\n" is returned as it stands; the empty
\* remainder after a final "\n" is no line.
RECURSIVE lines(_)
lines(s) ==
    IF s = <<>> THEN <<>>
    ELSE LET nl == find(s, <<"\n">>)
         IN  IF nl = NoPos THEN <<s>>
             ELSE LET raw  == Slice(s, 0, nl)
                      line == IF Len(raw) > 0 /\ raw[Len(raw)] = "\r"
                              THEN Slice(raw, 0, Len(raw) - 1)
                              ELSE raw
                  IN  <<line>> \o lines(SliceFrom(s, nl + 1))

\* [String]::join
RECURSIVE join(_, _)
join(ls, sep) ==
    IF ls = <<>> THEN <<>>
    ELSE IF Len(ls) = 1 THEN ls[1]
    ELSE ls[1] \o sep \o join(Tail(ls), sep)

\* ------------------------------------------------------------ literals

NL       == <<"\n">>
CRLF     == <<"\r", "\n">>
DELIM    == <<"-", "-", "-">>
DW_KEY   == <<"d", "r", "i", "f", "t", "w", "a", "t", "c", "h", "e", "r", ":">>
DW_NAME  == <<"d", "r", "i", "f", "t", "w", "a", "t", "c", "h", "e", "r">>
DASH_SP  == <<"-", " ">>
DQ       == <<"\"">>
SQ       == <<"'">>
COLON    == <<":">>
COLON_SP == <<":", " ">>

\* ------------------------------------------------------------- results

\* Result<String>: Ok(text), Err(err); "Panic" is a Rust panic (the process
\* aborts instead of returning a value).
Ok(t)   == [tag |-> "Ok", text |-> t, err |-> ""]
Err(e)  == [tag |-> "Err", text |-> <<>>, err |-> e]
Panic   == [tag |-> "Panic", text |-> <<>>, err |-> "panic"]

\* Option<String>
NoHash     == [some |-> FALSE, val |-> <<>>]
SomeHash(h) == [some |-> TRUE, val |-> h]

\* struct WatchEntry
WatchEntry(p, h) == [pattern |-> p, hash |-> h]

\* ------------------------------------------------------ serde_yaml model
(***************************************************************************)
(* serde_yaml::from_str::<YamlFrontmatter> on the block-style YAML that    *)
(* front matter is written in: a top-level block mapping whose keys all    *)
(* start in the same column, scalar values on the key's line, and, under a *)
(* key with no value, a block sequence of one-line single-key mappings     *)
(* ("- key: value"), all items in one column, which may be the column of   *)
(* the key itself.  Blank and comment lines are skipped.  Text outside     *)
(* this subset that the YAML grammar rejects (an item or a key in a        *)
(* column that closes or nests the open collection wrongly, a scalar       *)
(* continued by a line holding ": ") is an error; the generated documents  *)
(* and the texts the mutators make of them stay inside these cases.        *)
(***************************************************************************)

LeadingSpaces(s) == Min({i \in 0..Len(s) : i = Len(s) \/ s[i + 1] # " "})

YamlIndicators ==
    {"[", "]", "{", "}", ",", "#", "&", "*", "!", "|", ">", "'", "\"", "%", "@"}

IsIndicatorStart(v) ==
    \/ v[1] \in YamlIndicators
    \/ v[1] \in {"-", "?", ":"} /\ (Len(v) = 1 \/ v[2] = " ")

IsDigits(v) == Len(v) > 0 /\ \A i \in 1..Len(v) : v[i] \in {"0", "1", "2", "3", "4", "5", "6", "7", "8", "9"}

\* A scalar value, trimmed: the text after a key's colon.
YamlScalar(v) ==
    LET inner == Slice(v, 1, Len(v) - 1)
    IN  IF v = <<>> THEN [kind |-> "empty", val |-> <<>>]
        ELSE IF v \in {<<"~">>, <<"n", "u", "l", "l">>} THEN [kind |-> "null", val |-> <<>>]
        ELSE IF v[1] \in {"\"", "'"}
             THEN IF Len(v) >= 2 /\ v[Len(v)] = v[1] /\ ~contains(inner, <<v[1]>>)
                     /\ ~contains(inner, <<"\\">>)
                  THEN [kind |-> "str", val |-> inner]
                  ELSE [kind |-> "bad", val |-> <<>>]
        ELSE IF v = <<"[", "]">> THEN [kind |-> "seq", val |-> <<>>]
        ELSE IF IsIndicatorStart(v) THEN [kind |-> "bad", val |-> <<>>]
        ELSE IF contains(v, COLON_SP) \/ v[Len(v)] = ":" \/ contains(v, <<" ", "#">>)
             THEN [kind |-> "bad", val |-> <<>>]
        ELSE IF IsDigits(v) THEN [kind |-> "int", val |-> v]
        ELSE [kind |-> "str", val |-> v]

YamlValue(vt) == YamlScalar(trim(vt))

BadKeyValue == [ok |-> FALSE, key |-> <<>>, kind |-> "bad", val |-> <<>>]

KeyWithValue(key, v) == [ok |-> v.kind # "bad", key |-> key, kind |-> v.kind, val |-> v.val]

\* The text after a key: ":", then nothing or " value".
AfterColon(key, a) ==
    IF a # <<>> /\ a[1] = ":" /\ (Len(a) = 1 \/ a[2] = " ")
    THEN KeyWithValue(key, YamlValue(SliceFrom(a, 1)))
    ELSE BadKeyValue

NoKey == [ok |-> FALSE, key |-> <<>>, after |-> <<>>]

\* A key and the text after it: a quoted key ends at its closing quote, an
\* unquoted one before the first ":" that a space or the line's end follows.
KeySplit(t) ==
    IF t = <<>> THEN NoKey
    ELSE IF t[1] \in {"\"", "'"}
    THEN LET close == find(SliceFrom(t, 1), <<t[1]>>)
         IN  IF close = NoPos \/ contains(Slice(t, 1, 1 + close), <<"\\">>)
             THEN NoKey
             ELSE [ok |-> TRUE, key |-> Slice(t, 1, 1 + close), after |-> SliceFrom(t, close + 2)]
    ELSE IF IsIndicatorStart(t) THEN NoKey
    ELSE LET colons == {i \in 0..(Len(t) - 1) :
                          t[i + 1] = ":" /\ (i + 1 = Len(t) \/ t[i + 2] = " ")}
         IN  IF colons = {} THEN NoKey
             ELSE [ok |-> TRUE, key |-> trim_end(Slice(t, 0, Min(colons))),
                   after |-> SliceFrom(t, Min(colons))]

KeyValueOf(sp) == IF sp.ok THEN AfterColon(sp.key, trim_start(sp.after)) ELSE BadKeyValue

\* One "key: value" line (or the content of a sequence item).
KeyValue(t) == KeyValueOf(KeySplit(t))

IsSkipped(line) == LET t == trim(line) IN t = <<>> \/ t[1] = "#"

IsItem(body) == body = <<"-">> \/ starts_with(body, DASH_SP)

YamlLineOf(indent, body) ==
    [indent |-> indent, item |-> IsItem(body),
     kv |-> KeyValue(IF IsItem(body) THEN trim_start(SliceFrom(body, 1)) ELSE body)]

YamlLine(line) ==
    YamlLineOf(LeadingSpaces(line), trim_end(SliceFrom(line, LeadingSpaces(line))))

SignificantLines(ls) == SelectSeq(ls, LAMBDA l : ~IsSkipped(l))

YamlLinesOf(sig) == [i \in 1..Len(sig) |-> YamlLine(sig[i])]

YamlLines(text) == YamlLinesOf(SignificantLines(lines(text)))

YamlErr == [ok |-> FALSE, driftwatcher |-> [some |-> FALSE, items |-> <<>>]]

\* The lines after key line i that belong to its value: deeper lines, and
\* items in the key's own column (a sequence needs no indentation).
ValueLines(L, i, I0) ==
    LET stop == Min({k \in (i + 1)..(Len(L) + 1) :
                       \/ k = Len(L) + 1
                       \/ ~(L[k].indent > I0 \/ (L[k].item /\ L[k].indent = I0))})
    IN  SubSeq(L, i + 1, stop - 1)

\* A well-formed block sequence of one-line single-key mappings.
IsItemRun(run) ==
    \A k \in 1..Len(run) :
        /\ run[k].item
        /\ run[k].indent = run[1].indent
        /\ run[k].kv.ok
        /\ run[k].kv.kind \in {"empty", "null", "str", "int"}

\* Vec<HashMap<String, Option<String>>> from an item run.
ItemMaps(run) ==
    [k \in 1..Len(run) |->
        WatchEntry(run[k].kv.key,
                   IF run[k].kv.kind = "str" THEN SomeHash(run[k].kv.val) ELSE NoHash)]

\* Option<Vec<..>> of the reserved key; a hash that is not a string or null,
\* and a value that is not a sequence or null, are type errors.
ReservedValue(l, run) ==
    IF run # <<>>
    THEN [ok |-> \A k \in 1..Len(run) : run[k].kv.kind # "int",
          dw |-> [some |-> TRUE, items |-> ItemMaps(run)]]
    ELSE [ok |-> l.kv.kind \in {"empty", "null", "seq"},
          dw |-> [some |-> l.kv.kind = "seq", items |-> <<>>]]

RECURSIVE YamlTop(_, _, _, _)

\* The top-level key on line i, whose value's lines are `run`.
YamlKey(L, i, I0, acc, l, run, rv) ==
    IF l.indent # I0 \/ l.item \/ ~l.kv.ok THEN YamlErr
    ELSE IF run # <<>> /\ (l.kv.kind # "empty" \/ ~IsItemRun(run)) THEN YamlErr
    ELSE IF l.kv.key # DW_NAME THEN YamlTop(L, i + 1 + Len(run), I0, acc)
    ELSE IF acc.seen \/ ~rv.ok THEN YamlErr               \* duplicate field, wrong type
    ELSE YamlTop(L, i + 1 + Len(run), I0, [seen |-> TRUE, dw |-> rv.dw])

YamlTop(L, i, I0, acc) ==
    IF i > Len(L) THEN [ok |-> TRUE, driftwatcher |-> acc.dw]
    ELSE YamlKey(L, i, I0, acc, L[i], ValueLines(L, i, I0),
                 ReservedValue(L[i], ValueLines(L, i, I0)))

YamlDoc(L) ==
    IF L = <<>> THEN YamlErr
    ELSE YamlTop(L, 1, L[1].indent, [seen |-> FALSE, dw |-> [some |-> FALSE, items |-> <<>>]])

\* serde_yaml::from_str::<YamlFrontmatter>(yaml_content)
from_str(yaml_content) == YamlDoc(YamlLines(yaml_content))

\* ------------------------------------------------- metadata block engine

ParseNone     == [tag |-> "None", entries |-> <<>>, raw_yaml |-> <<>>, end_pos |-> 0, err |-> ""]
ParseErr(e)   == [tag |-> "Err", entries |-> <<>>, raw_yaml |-> <<>>, end_pos |-> 0, err |-> e]
ParsePanic    == [tag |-> "Panic", entries |-> <<>>, raw_yaml |-> <<>>, end_pos |-> 0, err |-> "panic"]

\* Lines 61-80 of parse: the Frontmatter built from the parsed YAML.
Frontmatter(parsed, yaml_content, end_pos) ==
    IF ~parsed.ok THEN ParseErr("ParseError")
    ELSE [tag |-> "Some",
          entries |-> IF parsed.driftwatcher.some THEN parsed.driftwatcher.items ELSE <<>>,
          raw_yaml |-> yaml_content, end_pos |-> end_pos, err |-> ""]

\* Lines 49-59 of parse, rest == &content[3..].
ParseRest(rest, close_pos) ==
    IF close_pos = NoPos THEN ParseErr("MalformedBlock")
    ELSE IF close_pos < 1 THEN ParsePanic                  \* &rest[1..0]
    ELSE Frontmatter(from_str(Slice(rest, 1, close_pos)), Slice(rest, 1, close_pos),
                     3 + close_pos + 4)

\* frontmatter::parse
parse(content) ==
    IF ~starts_with(content, DELIM) THEN ParseNone
    ELSE ParseRest(SliceFrom(content, 3), find(SliceFrom(content, 3), NL \o DELIM))

\* Frontmatter::has_driftwatcher
has_driftwatcher(f) == f.entries # <<>> \/ contains(f.raw_yaml, DW_KEY)

\* frontmatter::add_empty_frontmatter
add_empty_frontmatter(content) == DELIM \o NL \o DW_KEY \o NL \o DELIM \o NL \o content

\* Lines 99-106 of add_driftwatcher_to_existing.
InsertBeforeClose(content, end_pos) ==
    LET before_close == Slice(content, 0, rfind(Slice(content, 0, end_pos), NL \o DELIM))
        after_close  == SliceFrom(content, end_pos)
    IN  Ok(before_close \o NL \o DW_KEY \o NL \o DELIM \o after_close)

\* parse(content)?.ok_or_else(..)? followed by `rest`
WithFrontmatter(f, then) ==
    IF f.tag = "Panic" THEN Panic
    ELSE IF f.tag = "Err" THEN Err(f.err)
    ELSE IF f.tag = "None" THEN Err("NoFrontmatter")
    ELSE then

Promote(content, f) == WithFrontmatter(f, InsertBeforeClose(content, f.end_pos))

\* frontmatter::add_driftwatcher_to_existing
add_driftwatcher_to_existing(content) == Promote(content, parse(content))

\* The entry line add_entry formats.
EntryLine(pattern, hash) ==
    <<" ", " ", "-", " ">> \o DQ \o pattern \o DQ \o COLON_SP \o hash \o NL

\* Lines 125-136 of add_entry.
InsertAt(content, pattern, hash, line_end) ==
    IF line_end >= Len(content) THEN Panic                 \* &content[..=line_end]
    ELSE Ok(Slice(content, 0, line_end + 1) \o EntryLine(pattern, hash)
            \o SliceFrom(content, line_end + 1))

LineEnd(content, dw_pos, nl) == IF nl = NoPos THEN Len(content) ELSE dw_pos + nl

\* Lines 119-136 of add_entry.
InsertAfter(content, pattern, hash, dw_pos) ==
    IF dw_pos = NoPos THEN Err("BlockNotFound")
    ELSE InsertAt(content, pattern, hash,
                  LineEnd(content, dw_pos, find(SliceFrom(content, dw_pos), NL)))

InsertAfterKey(content, pattern, hash) ==
    InsertAfter(content, pattern, hash, find(content, DW_KEY))

RECURSIVE add_entry(_, _, _)

\* Lines 113-117 of add_entry: an untracked block is promoted first.
AddEntryTo(content, pattern, hash, f, with_dw) ==
    IF f.tag # "Some" THEN WithFrontmatter(f, Panic)
    ELSE IF has_driftwatcher(f) THEN InsertAfterKey(content, pattern, hash)
    ELSE IF with_dw.tag # "Ok" THEN with_dw
    ELSE add_entry(with_dw.text, pattern, hash)

\* frontmatter::add_entry
add_entry(content, pattern, hash) ==
    AddEntryTo(content, pattern, hash, parse(content), add_driftwatcher_to_existing(content))

\* The test of lines 149-156: is this line the entry of `pattern`?
IsEntryLine(line, pattern) ==
    /\ starts_with(trim(line), DASH_SP)
    /\ contains(line, pattern)
    /\ LET trimmed == SliceFrom(trim(line), 2)
       IN  \/ starts_with(trimmed, DQ \o pattern \o DQ \o COLON)
           \/ starts_with(trimmed, SQ \o pattern \o SQ \o COLON)
           \/ starts_with(trimmed, pattern \o COLON)

\* The line update_entry writes in place of the entry's line (lines 159-164).
RewriteLine(line, pattern, new_hash) ==
    LET indent == Len(line) - Len(trim_start(line))
    IN  Slice(line, 0, indent) \o DASH_SP \o DQ \o pattern \o DQ \o COLON_SP \o new_hash

\* update_entry without its `if !found` check: the text is returned as it is.
UpdateLinesUnchecked(ls, pattern, new_hash) ==
    LET hits == {k \in 1..Len(ls) : IsEntryLine(ls[k], pattern)}
    IN  Ok(join([k \in 1..Len(ls) |->
                   IF hits # {} /\ k = Min(hits) THEN RewriteLine(ls[k], pattern, new_hash)
                   ELSE ls[k]],
                NL) \o NL)

\* Lines 148-176 of update_entry, over the document's lines.
UpdateLines(ls, pattern, new_hash) ==
    LET hits == {k \in 1..Len(ls) : IsEntryLine(ls[k], pattern)}
    IN  IF hits = {} THEN Err("EntryNotFound")
        ELSE Ok(join([k \in 1..Len(ls) |->
                        IF k = Min(hits) THEN RewriteLine(ls[k], pattern, new_hash) ELSE ls[k]],
                     NL) \o NL)

\* frontmatter::update_entry
update_entry(content, pattern, new_hash) == UpdateLines(lines(content), pattern, new_hash)

\* ------------------------------------------------------------ filesystem
(***************************************************************************)
(* A path is a text; the file system maps the absolute component sequence  *)
(* of a path to a node.  The process runs in the directory /w; documents   *)
(* are found as ./p/1.md and ./q/2.md.                                     *)
(***************************************************************************)

\* The ASCII code of a character of the model's alphabet.
Byte(c) ==
    CASE c = "\n" -> 10 [] c = "\r" -> 13 [] c = " " -> 32 [] c = "\"" -> 34
      [] c = "#" -> 35 [] c = "$" -> 36 [] c = "'" -> 39 [] c = "*" -> 42
      [] c = "-" -> 45 [] c = "." -> 46 [] c = "/" -> 47
      [] c = "0" -> 48 [] c = "1" -> 49 [] c = "2" -> 50 [] c = "3" -> 51
      [] c = "4" -> 52 [] c = "5" -> 53 [] c = "6" -> 54 [] c = "7" -> 55
      [] c = "8" -> 56 [] c = "9" -> 57 [] c = ":" -> 58 [] c = "?" -> 63
      [] c = "B" -> 66 [] c = "O" -> 79 [] c = "R" -> 82 [] c = "T" -> 84
      [] c = "[" -> 91 [] c = "]" -> 93
      [] c = "a" -> 97 [] c = "b" -> 98 [] c = "c" -> 99 [] c = "d" -> 100
      [] c = "e" -> 101 [] c = "f" -> 102 [] c = "g" -> 103 [] c = "h" -> 104
      [] c = "i" -> 105 [] c = "l" -> 108 [] c = "m" -> 109 [] c = "n" -> 110
      [] c = "o" -> 111 [] c = "p" -> 112 [] c = "q" -> 113 [] c = "r" -> 114
      [] c = "s" -> 115 [] c = "t" -> 116 [] c = "w" -> 119 [] c = "x" -> 120
      [] c = "y" -> 121

HexDigits == <<"0", "1", "2", "3", "4", "5", "6", "7", "8", "9", "a", "b", "c", "d", "e", "f">>

\* format!("{:x}", Sha256(bytes)): the digest is collision-free, so it is
\* modelled by an injective rendering of the bytes fed to the hasher, in
\* lowercase hex after a leading "f" (a digest is never empty).
RECURSIVE HexOf(_)
HexOf(bytes) ==
    IF bytes = <<>> THEN <<>>
    ELSE <<HexDigits[(Byte(bytes[1]) \div 16) + 1], HexDigits[(Byte(bytes[1]) % 16) + 1]>>
         \o HexOf(Tail(bytes))

Sha256Hex(bytes) == <<"f">> \o HexOf(bytes)

\* Path::components of a path text: its segments; empty and "." segments drop.
RECURSIVE Segments(_)
Segments(path) ==
    IF path = <<>> THEN <<>>
    ELSE IF find(path, <<"/">>) = NoPos THEN <<path>>
    ELSE <<Slice(path, 0, find(path, <<"/">>))>> \o Segments(SliceFrom(path, find(path, <<"/">>) + 1))

Components(path) == SelectSeq(Segments(path), LAMBDA c : c # <<>> /\ c # <<".">>)

IsAbsolute(path) == starts_with(path, <<"/">>)

\* std::env::current_dir()
CWD == <<<<"w">>>>

\* The node a path names.
NodeOf(path) == IF IsAbsolute(path) THEN Components(path) ELSE CWD \o Components(path)

\* The text of an absolute component sequence.
RECURSIVE AbsText(_)
AbsText(node) == IF node = <<>> THEN <<>> ELSE <<"/">> \o node[1] \o AbsText(Tail(node))

\* PathBuf::join
PathJoin(base, rel) ==
    IF IsAbsolute(rel) THEN rel
    ELSE IF base = <<>> \/ base[Len(base)] = "/" THEN base \o rel
    ELSE base \o <<"/">> \o rel

Absent       == [kind |-> "none", data |-> <<>>, readable |-> FALSE]
File(data)   == [kind |-> "file", data |-> data, readable |-> TRUE]
Locked(data) == [kind |-> "file", data |-> data, readable |-> FALSE]
Dir          == [kind |-> "dir", data |-> <<>>, readable |-> TRUE]

\* The node table of a file system state `fs`: nodes it does not list are absent.
Node(fs, node) == IF node \in DOMAIN fs THEN fs[node] ELSE Absent

\* Path::exists, Path::is_dir, Path::is_file
Exists(fs, path) == Node(fs, NodeOf(path)).kind # "none"
is_dir(fs, path)  == Node(fs, NodeOf(path)).kind = "dir"
is_file(fs, path) == Node(fs, NodeOf(path)).kind = "file"

\* fs::read, fs::read_to_string: the bytes of a readable file.
ReadFile(fs, path) ==
    IF is_file(fs, path) /\ Node(fs, NodeOf(path)).readable
    THEN Ok(Node(fs, NodeOf(path)).data)
    ELSE Err("IoError")

\* ------------------------------------------------------------------ hasher

\* Byte-wise order of two texts.
RECURSIVE TextLess(_, _)
TextLess(s, t) ==
    IF t = <<>> THEN FALSE
    ELSE IF s = <<>> THEN TRUE
    ELSE IF s[1] # t[1] THEN Byte(s[1]) < Byte(t[1])
    ELSE TextLess(Tail(s), Tail(t))

\* Ord for PathBuf: component by component.
RECURSIVE SegmentsLess(_, _)
SegmentsLess(a, b) ==
    IF b = <<>> THEN FALSE
    ELSE IF a = <<>> THEN TRUE
    ELSE IF a[1] # b[1] THEN TextLess(a[1], b[1])
    ELSE SegmentsLess(Tail(a), Tail(b))

PathLess(p1, p2) ==
    \/ IsAbsolute(p2) /\ ~IsAbsolute(p1)
    \/ IsAbsolute(p1) = IsAbsolute(p2) /\ SegmentsLess(Components(p1), Components(p2))

\* Vec<PathBuf>::sort of a set of paths.
RECURSIVE SortPaths(_)
SortPaths(S) ==
    IF S = {} THEN <<>>
    ELSE LET least == CHOOSE x \in S : \A y \in S \ {x} : PathLess(x, y)
         IN  <<least>> \o SortPaths(S \ {least})

Range(seq) == {seq[i] : i \in 1..Len(seq)}

\* hash::hash_file
hash_file(fs, path) ==
    IF ReadFile(fs, path).tag = "Ok" THEN Ok(Sha256Hex(ReadFile(fs, path).text)) ELSE Err("IoError")

\* The bytes hash_files feeds for its sorted paths (lines 24-32).
RECURSIVE FedBytes(_, _)
FedBytes(fs, sorted_paths) ==
    IF sorted_paths = <<>> THEN <<>>
    ELSE sorted_paths[1] \o NL \o ReadFile(fs, sorted_paths[1]).text \o NL
         \o FedBytes(fs, Tail(sorted_paths))

\* hash_files folding the paths in the order it was given them.
hash_files_unsorted(fs, paths) ==
    IF \E i \in 1..Len(paths) : ReadFile(fs, paths[i]).tag # "Ok" THEN Err("IoError")
    ELSE Ok(Sha256Hex(FedBytes(fs, paths)))

\* hash::hash_files
hash_files(fs, paths) ==
    IF \E i \in 1..Len(paths) : ReadFile(fs, paths[i]).tag # "Ok" THEN Err("IoError")
    ELSE Ok(Sha256Hex(FedBytes(fs, SortPaths(Range(paths)))))

\* hash::collect_files_recursive: the non-hidden files under dir, as paths
\* made by joining the names to `dir`.
FilesUnder(fs, dir) ==
    {PathJoin(dir, join(SubSeq(m, Len(NodeOf(dir)) + 1, Len(m)), <<"/">>)) :
        m \in {n \in DOMAIN fs :
                 /\ Len(n) > Len(NodeOf(dir))
                 /\ SubSeq(n, 1, Len(NodeOf(dir))) = NodeOf(dir)
                 /\ fs[n].kind = "file"
                 /\ \A k \in (Len(NodeOf(dir)) + 1)..Len(n) : n[k][1] # "."
                 /\ \A k \in (Len(NodeOf(dir)) + 1)..(Len(n) - 1) :
                        Node(fs, SubSeq(n, 1, k)).kind = "dir"}}

\* hash::hash_directory
hash_directory(fs, dir) ==
    IF ~is_dir(fs, dir) THEN Err("IoError")
    ELSE IF FilesUnder(fs, dir) = {} THEN Ok(Sha256Hex(dir))
    ELSE hash_files(fs, SortPaths(FilesUnder(fs, dir)))

\* ---------------------------------------------------------------- resolver

GIT_DIR     == <<".", "g", "i", "t">>
ROOT_PREFIX == <<"$", "R", "O", "O", "T", "/">>

\* find_project_root looking only in the starting directory.
FindRootAtStart(fs, current) ==
    IF Node(fs, current \o <<GIT_DIR>>).kind # "none" THEN Ok(AbsText(current))
    ELSE Err("ProjectRootNotFound")

\* paths::find_project_root over the ancestors of the starting directory,
\* nearest first.
RECURSIVE FindRootFrom(_, _)
FindRootFrom(fs, current) ==
    IF Node(fs, current \o <<GIT_DIR>>).kind # "none" THEN Ok(AbsText(current))
    ELSE IF current = <<>> THEN Err("ProjectRootNotFound")
    ELSE FindRootFrom(fs, SubSeq(current, 1, Len(current) - 1))

find_project_root(fs, start) == FindRootFrom(fs, NodeOf(start))

\* Path::parent of a document path, "." when it is empty (lines 15-24).
DocDir(doc_path) ==
    IF rfind(doc_path, <<"/">>) = NoPos \/ rfind(doc_path, <<"/">>) = 0 THEN <<".">>
    ELSE Slice(doc_path, 0, rfind(doc_path, <<"/">>))

NoResolver == [ok |-> FALSE, doc_dir |-> <<>>, project_root |-> <<>>]

ResolverWith(doc_dir, root) ==
    IF root.tag # "Ok" THEN NoResolver
    ELSE [ok |-> TRUE, doc_dir |-> doc_dir, project_root |-> root.text]

\* PathResolver::new
PathResolverNew(fs, doc_path) ==
    ResolverWith(DocDir(doc_path), find_project_root(fs, DocDir(doc_path)))

\* paths::is_glob_pattern
is_glob_pattern(t) == contains(t, <<"*">>) \/ contains(t, <<"?">>) \/ contains(t, <<"[">>)

\* paths::is_hidden
is_hidden(path) ==
    \E i \in 1..Len(Segments(path)) :
        /\ starts_with(Segments(path)[i], <<".">>)
        /\ Segments(path)[i] \notin {<<".">>, <<".", ".">>}

\* glob::Pattern::matches for one path component: "?" is any one character,
\* "*" any run of characters.
RECURSIVE WildMatch(_, _)
WildMatch(pat, name) ==
    IF pat = <<>> THEN name = <<>>
    ELSE IF pat[1] = "*"
         THEN \E k \in 0..Len(name) : WildMatch(Tail(pat), SliceFrom(name, k))
    ELSE IF name = <<>> THEN FALSE
    ELSE (pat[1] = "?" \/ pat[1] = name[1]) /\ WildMatch(Tail(pat), Tail(name))

\* A "[" that no "]" closes is glob's PatternError.
IsBadGlob(pattern) == contains(pattern, <<"[">>) /\ ~contains(pattern, <<"]">>)

\* The nodes a glob matches: those existing nodes below the starting
\* directory whose components match the pattern's, one to one.
GlobNodes(fs, start, pats) ==
    {n \in DOMAIN fs :
        /\ Len(n) = Len(start) + Len(pats)
        /\ SubSeq(n, 1, Len(start)) = start
        /\ \A k \in 1..Len(n) : k < Len(n) => Node(fs, SubSeq(n, 1, k)).kind = "dir"
        /\ fs[n].kind # "none"
        /\ \A k \in 1..Len(pats) : WildMatch(pats[k], n[Len(start) + k])}

\* The path glob yields for a node: absolute for an absolute pattern, else
\* relative to the current directory.
GlobPath(absolute, n) ==
    IF absolute THEN AbsText(n)
    ELSE join(SubSeq(n, Len(CWD) + 1, Len(n)), <<"/">>)

\* GlobResolve keeping the hidden matches.
GlobResolveKeepingHidden(fs, full_pattern) ==
    IF IsBadGlob(full_pattern) THEN [tag |-> "Err", paths |-> <<>>]
    ELSE [tag |-> "Ok",
          paths |-> SortPaths({GlobPath(IsAbsolute(full_pattern), n) :
              n \in GlobNodes(fs, IF IsAbsolute(full_pattern) THEN <<>> ELSE CWD,
                              Components(full_pattern))})]

\* glob::glob(pattern) and the loop of lines 77-92: the matches, in
\* alphabetical order, without the hidden ones.
GlobResolve(fs, full_pattern) ==
    IF IsBadGlob(full_pattern) THEN [tag |-> "Err", paths |-> <<>>]
    ELSE [tag |-> "Ok",
          paths |-> SelectSeq(
              SortPaths({GlobPath(IsAbsolute(full_pattern), n) :
                  n \in GlobNodes(fs, IF IsAbsolute(full_pattern) THEN <<>> ELSE CWD,
                                  Components(full_pattern))}),
              LAMBDA path : ~is_hidden(path))]

\* PathResolver::resolve_from
resolve_from(fs, base, pattern) ==
    IF is_glob_pattern(pattern) THEN GlobResolve(fs, PathJoin(base, pattern))
    ELSE IF Exists(fs, PathJoin(base, pattern))
         THEN [tag |-> "Ok", paths |-> <<PathJoin(base, pattern)>>]
         ELSE [tag |-> "Ok", paths |-> <<>>]

\* PathResolver::resolve
resolve(fs, resolver, pattern) ==
    IF starts_with(pattern, ROOT_PREFIX)
    THEN resolve_from(fs, resolver.project_root, SliceFrom(pattern, Len(ROOT_PREFIX)))
    ELSE resolve_from(fs, resolver.doc_dir, pattern)

\* HashPaths handing every resolved path of a glob to hash_files.
HashPathsUnfiltered(fs, paths) ==
    IF paths = <<>> THEN Err("NoMatch")
    ELSE IF Len(paths) = 1
         THEN IF is_dir(fs, paths[1]) THEN hash_directory(fs, paths[1])
              ELSE hash_file(fs, paths[1])
    ELSE hash_files(fs, paths)

\* Lines 49-67 of hash_pattern, on the resolved paths.
HashPaths(fs, paths) ==
    IF paths = <<>> THEN Err("NoMatch")
    ELSE IF Len(paths) = 1
         THEN IF is_dir(fs, paths[1]) THEN hash_directory(fs, paths[1])
              ELSE hash_file(fs, paths[1])
    ELSE IF SelectSeq(paths, LAMBDA q : is_file(fs, q)) = <<>> THEN Err("NoMatch")
    ELSE hash_files(fs, SelectSeq(paths, LAMBDA q : is_file(fs, q)))

HashResolved(fs, r) == IF r.tag # "Ok" THEN Err("GlobError") ELSE HashPaths(fs, r.paths)

\* PathResolver::hash_pattern
hash_pattern(fs, resolver, pattern) == HashResolved(fs, resolve(fs, resolver, pattern))

\* ---------------------------------------------------------------- evaluator

Verdict(status, hash) == [status |-> status, hash |-> hash]

\* CheckHashed without the digest in the Drifted case.
CheckHashedDropsDigest(stored_hash, paths, current_hash) ==
    IF paths.tag # "Ok" THEN Verdict("Missing", NoHash)
    ELSE IF paths.paths = <<>> THEN Verdict("Missing", NoHash)
    ELSE IF current_hash.tag # "Ok" THEN Verdict("Missing", NoHash)
    ELSE IF current_hash.text = stored_hash THEN Verdict("Current", SomeHash(current_hash.text))
    ELSE Verdict("Drifted", NoHash)

\* Lines 158-177 of check::check_entry, for an entry that has a hash.
CheckHashed(stored_hash, paths, current_hash) ==
    IF paths.tag # "Ok" THEN Verdict("Missing", NoHash)
    ELSE IF paths.paths = <<>> THEN Verdict("Missing", NoHash)
    ELSE IF current_hash.tag # "Ok" THEN Verdict("Missing", NoHash)
    ELSE IF current_hash.text = stored_hash THEN Verdict("Current", SomeHash(current_hash.text))
    ELSE Verdict("Drifted", SomeHash(current_hash.text))

\* check_entry with the resolution decided before the presence of the hash.
check_entry_resolving_first(fs, resolver, e) ==
    IF resolve(fs, resolver, e.pattern).tag # "Ok" THEN Verdict("Missing", NoHash)
    ELSE IF resolve(fs, resolver, e.pattern).paths = <<>> THEN Verdict("Missing", NoHash)
    ELSE IF ~e.hash.some THEN Verdict("Invalid", NoHash)
    ELSE CheckHashed(e.hash.val, resolve(fs, resolver, e.pattern),
                     hash_pattern(fs, resolver, e.pattern))

\* commands::check::check_entry
check_entry(fs, resolver, e) ==
    IF ~e.hash.some THEN Verdict("Invalid", NoHash)
    ELSE CheckHashed(e.hash.val, resolve(fs, resolver, e.pattern),
                     hash_pattern(fs, resolver, e.pattern))

\* commands::report::check_entry: the status alone.
report_check_entry(fs, resolver, e) ==
    IF ~e.hash.some THEN "Invalid"
    ELSE CheckHashed(e.hash.val, resolve(fs, resolver, e.pattern),
                     hash_pattern(fs, resolver, e.pattern)).status

\* ------------------------------------------------------------ documents
(***************************************************************************)
(* The documents the engine is run on: tracked blocks whose entries vary   *)
(* in list indentation, key quoting, hash presence and patterns; the same  *)
(* with LF and CRLF line terminators and with different ends of the        *)
(* document; and documents with no block, an unclosed block, an empty      *)
(* block and foreign blocks.                                               *)
(***************************************************************************)

\* At most this many entries in a generated block.
MaxEntries == 2

Patterns == {<<"a">>, <<"b">>}
OldHash  == <<"f", "0">>
NewHash  == <<"f", "1">>
Hashes   == {OldHash, NewHash}

Spaces(n) == [i \in 1..n |-> " "]

\* A key as written: double-quoted, single-quoted or unquoted.
KeyText(style, p) ==
    CASE style = "dq" -> DQ \o p \o DQ
      [] style = "sq" -> SQ \o p \o SQ
      [] OTHER        -> p

\* An entry line; style "wide" writes two spaces after the dash.
EntryText(indent, style, p, hashed) ==
    Spaces(indent)
    \o (IF style = "wide" THEN <<"-", " ", " ">> ELSE DASH_SP)
    \o KeyText(IF style = "wide" THEN "dq" ELSE style, p)
    \o COLON
    \o (IF hashed THEN <<" ">> \o OldHash ELSE <<>>)

RECURSIVE EntryLines(_, _, _, _, _)
EntryLines(indent, style, hashed, ps, T) ==
    IF ps = <<>> THEN <<>>
    ELSE EntryText(indent, style, Head(ps), hashed) \o T
         \o EntryLines(indent, style, hashed, Tail(ps), T)

PatSeqs == UNION {[1..n -> Patterns] : n \in 0..MaxEntries}

TrackedDoc(indent, style, hashed, ps, T, tail) ==
    DELIM \o T \o DW_KEY \o T \o EntryLines(indent, style, hashed, ps, T) \o DELIM \o tail

Styles == {"dq", "sq", "plain", "wide"}

Tails(T) == {<<>>, T, T \o <<"B">>, T \o <<"B">> \o T}

TITLE == <<"t", "i", "t", "l", "e", ":", " ", "T">>

FormatDocs ==
    {TrackedDoc(indent, style, hashed, ps, NL, NL \o <<"B">> \o NL) :
        indent \in {0, 2, 4}, style \in Styles, hashed \in BOOLEAN, ps \in PatSeqs}

TerminatorDocs ==
    UNION {{TrackedDoc(2, "dq", TRUE, ps, T, tail) : tail \in Tails(T), ps \in PatSeqs} :
        T \in {NL, CRLF}}

OtherDocs ==
    { <<>>,
      <<"B">> \o NL,
      \* unclosed block
      DELIM \o NL \o TITLE \o NL,
      \* empty block
      DELIM \o NL \o DELIM \o NL \o <<"B">> \o NL,
      \* foreign blocks
      DELIM \o NL \o TITLE \o NL \o DELIM \o NL \o <<"B">> \o NL,
      DELIM \o NL \o TITLE \o NL \o DELIM,
      DELIM \o CRLF \o TITLE \o CRLF \o DELIM \o CRLF \o <<"B">>,
      DELIM \o NL \o Spaces(2) \o TITLE \o NL \o DELIM \o NL \o <<"B">> \o NL,
      DELIM \o NL \o <<"#", " ">> \o DW_KEY \o <<" ", "x">> \o NL \o TITLE \o NL \o DELIM \o NL,
      DELIM \o NL \o <<"n", "o">> \o DW_KEY \o <<" ", "T">> \o NL \o DELIM \o NL,
      \* another list holds the same key before the tracked one
      DELIM \o NL \o <<"t", "a", "g", "s", ":">> \o NL \o EntryText(2, "plain", <<"a">>, TRUE) \o NL
          \o DW_KEY \o NL \o EntryText(2, "dq", <<"a">>, TRUE) \o NL \o DELIM \o NL,
      \* the reserved key written quoted, with and without entries
      DELIM \o NL \o DQ \o DW_NAME \o DQ \o COLON \o NL \o EntryText(2, "dq", <<"a">>, TRUE) \o NL
          \o DELIM \o NL,
      DELIM \o NL \o DQ \o DW_NAME \o DQ \o COLON \o NL \o DELIM \o NL,
      \* the reserved key with an empty flow sequence
      DELIM \o NL \o DW_KEY \o <<" ", "[", "]">> \o NL \o DELIM \o NL,
      \* a key after the entries
      DELIM \o NL \o DW_KEY \o NL \o EntryText(2, "dq", <<"a">>, TRUE) \o NL \o TITLE \o NL
          \o DELIM \o NL,
      \* an item line in the body
      DELIM \o NL \o DW_KEY \o NL \o DELIM \o NL \o EntryText(0, "plain", <<"a">>, TRUE) \o NL,
      \* a line of the block that begins with the delimiter and goes on
      DELIM \o NL \o TITLE \o NL \o DELIM \o <<"-">> \o NL \o <<"B">> \o NL \o DELIM \o NL,
      DELIM \o NL \o TITLE \o NL \o DELIM \o <<"-">> \o NL }

Docs == FormatDocs \cup TerminatorDocs \cup OtherDocs

\* ------------------------------------------------------------ variables

VARIABLES
    doc,      \* engine run: the document text the engine is applied to
    call,     \* the function or command applied last, with its arguments
    out,      \* its result
    fm,       \* engine run: parse of the current text (doc, or out's text)
    tracked,  \* engine run: has_driftwatcher of fm
    fsys,     \* the file system: documents and watched files
    entry,    \* evaluator run: the WatchEntry evaluated
    verdict   \* evaluator run: what check_entry returned

vars == <<doc, call, out, fm, tracked, fsys, entry, verdict>>
engineVars == <<doc, fm, tracked>>
worldVars  == <<fsys, entry, verdict>>

NoCall   == [fn |-> "none", pattern |-> <<>>, hash |-> <<>>]
NoOut    == [tag |-> "Unset", text |-> <<>>, err |-> ""]
NoParse  == [tag |-> "Unset", entries |-> <<>>, raw_yaml |-> <<>>, end_pos |-> 0, err |-> ""]
NoFs      == <<>>
NoEntry   == WatchEntry(<<>>, NoHash)
NoVerdict == [status |-> "Unset", hash |-> NoHash]

\* ------------------------------------------------------- the engine run
(***************************************************************************)
(* The engine is value-oriented: every function takes the document text    *)
(* and returns a new value.  A run applies at most one mutator to `doc`,   *)
(* then parse to the text at hand, then has_driftwatcher to the block.     *)
(***************************************************************************)

EngineInit ==
    /\ doc \in Docs
    /\ call = NoCall
    /\ out = NoOut
    /\ fm = NoParse
    /\ tracked = "unset"
    /\ fsys = NoFs
    /\ entry = NoEntry
    /\ verdict = NoVerdict

Fresh == call = NoCall /\ fm = NoParse

CurrentText == IF call = NoCall THEN doc ELSE out.text

AddEmptyFrontmatter ==
    /\ Fresh
    /\ call' = [NoCall EXCEPT !.fn = "add_empty_frontmatter"]
    /\ out' = Ok(add_empty_frontmatter(doc))
    /\ UNCHANGED <<doc, fm, tracked>>
    /\ UNCHANGED worldVars

AddDriftwatcherToExisting ==
    /\ Fresh
    /\ call' = [NoCall EXCEPT !.fn = "add_driftwatcher_to_existing"]
    /\ out' = add_driftwatcher_to_existing(doc)
    /\ UNCHANGED <<doc, fm, tracked>>
    /\ UNCHANGED worldVars

AddEntry ==
    /\ Fresh
    /\ \E p \in Patterns, h \in Hashes :
        /\ call' = [fn |-> "add_entry", pattern |-> p, hash |-> h]
        /\ out' = add_entry(doc, p, h)
    /\ UNCHANGED <<doc, fm, tracked>>
    /\ UNCHANGED worldVars

UpdateEntry ==
    /\ Fresh
    /\ \E p \in Patterns, h \in Hashes :
        /\ call' = [fn |-> "update_entry", pattern |-> p, hash |-> h]
        /\ out' = update_entry(doc, p, h)
    /\ UNCHANGED <<doc, fm, tracked>>
    /\ UNCHANGED worldVars

Parse ==
    /\ fm = NoParse
    /\ call = NoCall \/ out.tag = "Ok"
    /\ fm' = parse(CurrentText)
    /\ UNCHANGED <<doc, call, out, tracked>>
    /\ UNCHANGED worldVars

HasDriftwatcher ==
    /\ fm.tag = "Some"
    /\ tracked = "unset"
    /\ tracked' = IF has_driftwatcher(fm) THEN "yes" ELSE "no"
    /\ UNCHANGED <<doc, call, out, fm>>
    /\ UNCHANGED worldVars

EngineNext ==
    \/ AddEmptyFrontmatter
    \/ AddDriftwatcherToExisting
    \/ AddEntry
    \/ UpdateEntry
    \/ Parse
    \/ HasDriftwatcher

EngineSpec == EngineInit /\ [][EngineNext]_vars


\* ---------------------------------------------------------------- the world
(***************************************************************************)
(* The tree the commands run in:                                           *)
(*     /w            the current directory                                 *)
(*     /w/p/.git     p is a project root                                   *)
(*     /w/p/1.md     a document; /w/p/a, /w/p/b, /w/p/d/a watched files    *)
(*     /w/q/2.md     a document; /w/q/a a watched file; /w/q/.git may miss *)
(***************************************************************************)

N_W    == <<<<"w">>>>
N_P    == <<<<"w">>, <<"p">>>>
N_PGIT == <<<<"w">>, <<"p">>, GIT_DIR>>
N_PA   == <<<<"w">>, <<"p">>, <<"a">>>>
N_PB   == <<<<"w">>, <<"p">>, <<"b">>>>
N_PD   == <<<<"w">>, <<"p">>, <<"d">>>>
N_PDA  == <<<<"w">>, <<"p">>, <<"d">>, <<"a">>>>
N_DOC1 == <<<<"w">>, <<"p">>, <<"1", ".", "m", "d">>>>
N_Q    == <<<<"w">>, <<"q">>>>
N_QGIT == <<<<"w">>, <<"q">>, GIT_DIR>>
N_QA   == <<<<"w">>, <<"q">>, <<"a">>>>
N_DOC2 == <<<<"w">>, <<"q">>, <<"2", ".", "m", "d">>>>
N_WGIT == <<<<"w">>, GIT_DIR>>
N_WA   == <<<<"w">>, <<"a">>>>

DOC1 == <<".", "/", "p", "/", "1", ".", "m", "d">>
DOC2 == <<".", "/", "q", "/", "2", ".", "m", "d">>

\* The part of the tree that never changes.
BaseFs ==
    (N_W :> Dir) @@ (N_P :> Dir) @@ (N_PGIT :> Dir) @@ (N_Q :> Dir) @@ (N_QA :> File(<<"x">>))

\* A file system state with the given nodes on top of the fixed part.
WorldOf(pa, pb, pd, pda, qgit, d1, d2) ==
    (N_PA :> pa) @@ (N_PB :> pb) @@ (N_PD :> pd) @@ (N_PDA :> pda) @@ (N_QGIT :> qgit)
        @@ (N_DOC1 :> d1) @@ (N_DOC2 :> d2) @@ BaseFs

\* fs::write: an existing file that cannot be opened is left as it is.
WriteFile(fs, path, text) ==
    IF Node(fs, NodeOf(path)).kind = "dir"
       \/ (Node(fs, NodeOf(path)).kind = "file" /\ ~Node(fs, NodeOf(path)).readable)
    THEN fs
    ELSE [n \in DOMAIN fs \cup {NodeOf(path)} |-> IF n = NodeOf(path) THEN File(text) ELSE fs[n]]

\* frontmatter::write_file
write_file(fs, path, text) ==
    IF WriteFile(fs, path, text) = fs /\ Node(fs, NodeOf(path)) # File(text)
    THEN [tag |-> "Err", fs |-> fs]
    ELSE [tag |-> "Ok", fs |-> WriteFile(fs, path, text)]

\* ------------------------------------------------------- the evaluator run
(***************************************************************************)
(* One entry of the document ./p/1.md is evaluated against the tree; the   *)
(* watched file a changes between evaluations.                             *)
(***************************************************************************)

FileStates == {Absent, File(<<"x">>), File(<<"y">>), Locked(<<"x">>)}

\* Trees whose version-control marker is in the document's directory ./p, in
\* its parent, in both or nowhere, with a file ./a beside ./p.
RootWorlds ==
    {(N_PGIT :> pgit) @@ (N_WGIT :> wgit) @@ (N_WA :> wa)
        @@ WorldOf(pa, Absent, Absent, Absent, Absent, Absent, Absent) :
        pgit \in {Absent, Dir}, wgit \in {Absent, Dir},
        wa \in {Absent, File(<<"y">>)}, pa \in {Absent, File(<<"x">>)}}

EvalWorlds ==
    {WorldOf(pa, pb, pd, pda, Absent, Absent, Absent) :
        pa \in FileStates, pb \in {Absent, File(<<"x">>), Dir},
        pd \in {Absent, Dir}, pda \in {Absent, File(<<"x">>)}}
    \cup RootWorlds

EvalPatterns ==
    {<<"a">>, <<"d">>, <<"?">>, <<"*">>, <<"[">>, <<"z">>, ROOT_PREFIX \o <<"a">>}

\* The hash an entry of `pattern` carries: none, one that never was a digest,
\* or the digest taken when the tree was `then`.
StoredHashes(pattern) ==
    {NoHash, SomeHash(OldHash)}
    \cup {SomeHash(h.text) :
            h \in {g \in {hash_pattern(then, PathResolverNew(then, DOC1), pattern) :
                            then \in {w \in EvalWorlds : PathResolverNew(w, DOC1).ok}} :
                        g.tag = "Ok"}}

EvalInit ==
    /\ fsys \in EvalWorlds
    /\ \E pattern \in EvalPatterns : \E h \in StoredHashes(pattern) : entry = WatchEntry(pattern, h)
    /\ call = NoCall
    /\ verdict = NoVerdict
    /\ doc = <<>>
    /\ out = NoOut
    /\ fm = NoParse
    /\ tracked = "unset"

CheckEntry ==
    /\ call = NoCall
    /\ PathResolverNew(fsys, DOC1).ok
    /\ call' = [NoCall EXCEPT !.fn = "check_entry"]
    /\ verdict' = check_entry(fsys, PathResolverNew(fsys, DOC1), entry)
    /\ UNCHANGED <<fsys, entry, out>>
    /\ UNCHANGED engineVars

ReportCheckEntry ==
    /\ call = NoCall
    /\ PathResolverNew(fsys, DOC1).ok
    /\ call' = [NoCall EXCEPT !.fn = "report_check_entry"]
    /\ verdict' = Verdict(report_check_entry(fsys, PathResolverNew(fsys, DOC1), entry), NoHash)
    /\ UNCHANGED <<fsys, entry, out>>
    /\ UNCHANGED engineVars

\* PathResolver::new for the document, by the root it finds.
NewResolver ==
    /\ call = NoCall
    /\ call' = [NoCall EXCEPT !.fn = "new"]
    /\ out' = find_project_root(fsys, DocDir(DOC1))
    /\ UNCHANGED <<fsys, entry, verdict>>
    /\ UNCHANGED engineVars

\* resolve alone, on the pattern of the entry.
Resolve ==
    /\ call = NoCall
    /\ PathResolverNew(fsys, DOC1).ok
    /\ call' = [NoCall EXCEPT !.fn = "resolve"]
    /\ out' = resolve(fsys, PathResolverNew(fsys, DOC1), entry.pattern)
    /\ UNCHANGED <<fsys, entry, verdict>>
    /\ UNCHANGED engineVars

\* hash_pattern alone, as add calls it.
HashPattern ==
    /\ call = NoCall
    /\ PathResolverNew(fsys, DOC1).ok
    /\ call' = [NoCall EXCEPT !.fn = "hash_pattern"]
    /\ out' = hash_pattern(fsys, PathResolverNew(fsys, DOC1), entry.pattern)
    /\ UNCHANGED <<fsys, entry, verdict>>
    /\ UNCHANGED engineVars

\* The watched file ./p/a is edited, removed or protected after an evaluation.
TouchWatched ==
    /\ call # NoCall
    /\ \E pa \in FileStates \ {fsys[N_PA]} : fsys' = [fsys EXCEPT ![N_PA] = pa]
    /\ call' = NoCall
    /\ verdict' = NoVerdict
    /\ out' = NoOut
    /\ UNCHANGED entry
    /\ UNCHANGED engineVars

EvalNext ==
    \/ CheckEntry
    \/ ReportCheckEntry
    \/ NewResolver
    \/ Resolve
    \/ HashPattern
    \/ TouchWatched

EvalSpec == EvalInit /\ [][EvalNext]_vars


\* ----------------------------------------------------------------- commands

\* scanner::is_markdown
is_markdown(path) ==
    /\ rfind(path, <<".">>) # NoPos
    /\ rfind(path, <<".">>) > rfind(path, <<"/">>) + 1
    /\ SliceFrom(path, rfind(path, <<".">>) + 1)
           \in {<<"m", "d">>, <<"m", "a", "r", "k", "d", "o", "w", "n">>}

\* scanner::find_markdown_files(None): the documents below ".", sorted.
find_markdown_files(fs) == SortPaths({f \in FilesUnder(fs, <<".">>) : is_markdown(f)})

Failed(fs, e) == [tag |-> "Err", err |-> e, fs |-> fs]
Aborted(fs)   == [tag |-> "Panic", err |-> "panic", fs |-> fs]
Done(fs)      == [tag |-> "Ok", err |-> "", fs |-> fs]

\* AddWrite that writes whatever the insertion returned.
AddWriteUnchecked(fs, doc_file, new_content) ==
    IF new_content.tag = "Ok" THEN Done(WriteFile(fs, doc_file, new_content.text))
    ELSE Failed(WriteFile(fs, doc_file, new_content.text), new_content.err)

\* Lines 50-51 of add::run.
AddWrite(fs, doc_file, new_content) ==
    IF new_content.tag = "Panic" THEN Aborted(fs)
    ELSE IF new_content.tag # "Ok" THEN Failed(fs, new_content.err)
    ELSE IF write_file(fs, doc_file, new_content.text).tag # "Ok" THEN Failed(fs, "IoError")
    ELSE Done(write_file(fs, doc_file, new_content.text).fs)

\* Lines 38-51 of add::run.
AddHashed(fs, doc_file, watch_pattern, content, paths, hash) ==
    IF paths.tag # "Ok" THEN Failed(fs, "GlobError")
    ELSE IF paths.paths = <<>> THEN Failed(fs, "NoMatch")
    ELSE IF hash.tag # "Ok" THEN Failed(fs, hash.err)
    ELSE AddWrite(fs, doc_file, add_entry(content, watch_pattern, hash.text))

\* Lines 37-47 of add::run.
AddResolved(fs, doc_file, watch_pattern, content, resolver) ==
    IF ~resolver.ok THEN Failed(fs, "ProjectRootNotFound")
    ELSE AddHashed(fs, doc_file, watch_pattern, content,
                   resolve(fs, resolver, watch_pattern),
                   hash_pattern(fs, resolver, watch_pattern))

\* Lines 18-37 of add::run.
AddParsed(fs, doc_file, watch_pattern, content, f) ==
    IF f.tag = "Panic" THEN Aborted(fs)
    ELSE IF f.tag = "Err" THEN Failed(fs, f.err)
    ELSE IF f.tag = "None" \/ ~has_driftwatcher(f) THEN Failed(fs, "NotInitialized")
    ELSE IF \E i \in 1..Len(f.entries) : f.entries[i].pattern = watch_pattern
         THEN Failed(fs, "AlreadyExists")
    ELSE AddResolved(fs, doc_file, watch_pattern, content, PathResolverNew(fs, doc_file))

\* Lines 15-18 of add::run.
AddRead(fs, doc_file, watch_pattern, content) ==
    IF content.tag # "Ok" THEN Failed(fs, "IoError")
    ELSE AddParsed(fs, doc_file, watch_pattern, content.text, parse(content.text))

\* commands::add::run
add_run(fs, doc_file, watch_pattern) ==
    IF ~Exists(fs, doc_file) THEN Failed(fs, "InvalidFile")
    ELSE AddRead(fs, doc_file, watch_pattern, ReadFile(fs, doc_file))

\* Lines 24-25 and 31-32 of init::run.
InitWrite(fs, doc_file, new_content) ==
    IF new_content.tag = "Panic" THEN Aborted(fs)
    ELSE IF new_content.tag # "Ok" THEN Failed(fs, new_content.err)
    ELSE IF write_file(fs, doc_file, new_content.text).tag # "Ok" THEN Failed(fs, "IoError")
    ELSE Done(write_file(fs, doc_file, new_content.text).fs)

\* Lines 17-36 of init::run.
InitParsed(fs, doc_file, content, f) ==
    IF f.tag = "Panic" THEN Aborted(fs)
    ELSE IF f.tag = "Err" THEN Failed(fs, f.err)
    ELSE IF f.tag = "Some" /\ has_driftwatcher(f) THEN Done(fs)
    ELSE IF f.tag = "Some" THEN InitWrite(fs, doc_file, add_driftwatcher_to_existing(content))
    ELSE InitWrite(fs, doc_file, Ok(add_empty_frontmatter(content)))

\* Lines 14-17 of init::run.
InitRead(fs, doc_file, content) ==
    IF content.tag # "Ok" THEN Failed(fs, "IoError")
    ELSE InitParsed(fs, doc_file, content.text, parse(content.text))

\* commands::init::run
init_run(fs, doc_file) ==
    IF ~Exists(fs, doc_file) THEN Failed(fs, "InvalidFile")
    ELSE InitRead(fs, doc_file, ReadFile(fs, doc_file))


\* What the scan loop makes of one document (check::run lines 26-49; the
\* loops of report::run and validate::run take the same steps).
Scanned(kind, err, entries, resolver) ==
    [kind |-> kind, err |-> err, entries |-> entries, resolver |-> resolver]

ScanEntries(entries, resolver) ==
    IF ~resolver.ok THEN Scanned("broken", "ProjectRootNotFound", <<>>, NoResolver)
    ELSE Scanned("tracked", "", entries, resolver)

ScanBlock(fs, doc_path, f) ==
    IF f.tag = "Panic" THEN Scanned("panic", "panic", <<>>, NoResolver)
    ELSE IF f.tag = "Err" THEN Scanned("broken", f.err, <<>>, NoResolver)
    ELSE IF f.tag = "None" \/ ~has_driftwatcher(f) THEN Scanned("skipped", "", <<>>, NoResolver)
    ELSE ScanEntries(f.entries, PathResolverNew(fs, doc_path))

ScanContent(fs, doc_path, content) ==
    IF content.tag # "Ok" THEN Scanned("broken", "IoError", <<>>, NoResolver)
    ELSE ScanBlock(fs, doc_path, parse(content.text))

ScanDoc(fs, doc_path) == ScanContent(fs, doc_path, ReadFile(fs, doc_path))

\* struct DriftedEntry
DriftedEntry(doc_path, pattern, current_hash) ==
    [doc_path |-> doc_path, pattern |-> pattern, current_hash |-> current_hash]

\* Lines 51-81 of check::run: the drifted entries of one document, in order.
DriftedOf(fs, doc_path, s) ==
    LET found == [i \in 1..Len(s.entries) |->
                    [e |-> s.entries[i], v |-> check_entry(fs, s.resolver, s.entries[i])]]
        drift == SelectSeq(found, LAMBDA x : x.v.status = "Drifted" /\ x.v.hash.some)
    IN  [i \in 1..Len(drift) |-> DriftedEntry(doc_path, drift[i].e.pattern, drift[i].v.hash.val)]

NoScan == [panicked |-> FALSE, scanned |-> <<>>, drifted |-> <<>>, broken_files |-> <<>>]

ScanMerge(doc_path, s, drifted, rest) ==
    [panicked     |-> rest.panicked,
     scanned      |-> <<doc_path>> \o rest.scanned,
     drifted      |-> drifted \o rest.drifted,
     broken_files |-> (IF s.kind = "broken" THEN <<doc_path>> ELSE <<>>) \o rest.broken_files]

\* Lines 25-82 of check::run; a panic in parse ends the process.
RECURSIVE ScanLoop(_, _)
ScanStep(fs, docs, s) ==
    IF s.kind = "panic" THEN [NoScan EXCEPT !.panicked = TRUE]
    ELSE ScanMerge(Head(docs), s, DriftedOf(fs, Head(docs), s), ScanLoop(fs, Tail(docs)))

ScanLoop(fs, docs) ==
    IF docs = <<>> THEN NoScan ELSE ScanStep(fs, docs, ScanDoc(fs, Head(docs)))

\* Lines 116-122: the selected entries of one document, in the order shown.
UpdatesOf(drifted, selections, doc_path) ==
    LET idx == SelectSeq([i \in 1..Len(drifted) |-> i],
                         LAMBDA i : i \in selections /\ drifted[i].doc_path = doc_path)
    IN  [k \in 1..Len(idx) |-> drifted[idx[k]]]

SelectedDocs(drifted, selections) == {drifted[i].doc_path : i \in selections}

\* The orders in which iterating the HashMap `updates` may yield its keys.
Orders(S) == {o \in [1..Cardinality(S) -> S] : \A i, j \in 1..Cardinality(S) : o[i] = o[j] => i = j}

\* Lines 128-130.
RECURSIVE ApplyEntries(_, _)
ApplyNext(entries, r) ==
    IF r.tag # "Ok" THEN r ELSE ApplyEntries(r.text, Tail(entries))

ApplyEntries(content, entries) ==
    IF entries = <<>> THEN Ok(content)
    ELSE ApplyNext(entries, update_entry(content, Head(entries).pattern, Head(entries).current_hash))

\* Line 132.
UpdateWrite(fs, doc_path, new_content) ==
    IF new_content.tag # "Ok" THEN [tag |-> "Err", fs |-> fs]
    ELSE write_file(fs, doc_path, new_content.text)

\* Lines 126-132: the body of the update loop for one document.
UpdateRead(fs, doc_path, entries, content) ==
    IF content.tag # "Ok" THEN [tag |-> "Err", fs |-> fs]
    ELSE UpdateWrite(fs, doc_path, ApplyEntries(content.text, entries))

UpdateDocument(fs, doc_path, entries) == UpdateRead(fs, doc_path, entries, ReadFile(fs, doc_path))

Applied(tag, fs, written, failed) ==
    [tag |-> tag, fs |-> fs, written |-> written, failed |-> failed]

\* Lines 125-133: the update loop; `?` returns from run at the first failure.
RECURSIVE ApplyUpdates(_, _, _, _)
ApplyWritten(doc_path, rest) ==
    Applied(rest.tag, rest.fs, rest.written \cup {doc_path}, rest.failed)

ApplyStep(order, drifted, selections, r) ==
    IF r.tag # "Ok" THEN Applied("Err", r.fs, {}, {Head(order)})
    ELSE ApplyWritten(Head(order), ApplyUpdates(r.fs, Tail(order), drifted, selections))

ApplyUpdates(fs, order, drifted, selections) ==
    IF order = <<>> THEN Applied("Ok", fs, {}, {})
    ELSE ApplyStep(order, drifted, selections,
                   UpdateDocument(fs, Head(order), UpdatesOf(drifted, selections, Head(order))))

\* What a batch command leaves behind.
Batch(tag, fs, scanned, broken, warned, selected, written, failed) ==
    [tag |-> tag, fs |-> fs, scanned |-> scanned, broken |-> broken, warned |-> warned,
     selected |-> selected, written |-> written, failed |-> failed]

\* commands::check::run, for the entries the user selects and the order in
\* which the map of updates is iterated.
check_run(fs, scan, selections, applied) ==
    IF scan.panicked THEN Batch("Panic", fs, Range(scan.scanned), {}, {}, {}, {}, {})
    ELSE IF applied.tag # "Ok"
         THEN Batch("Err", applied.fs, Range(scan.scanned), Range(scan.broken_files), {},
                    SelectedDocs(scan.drifted, selections), applied.written, applied.failed)
    ELSE Batch("Ok", applied.fs, Range(scan.scanned), Range(scan.broken_files),
               Range(scan.broken_files),
               SelectedDocs(scan.drifted, selections), applied.written, {})

\* Lines 29-60 of report::run: warnings are printed as the loop meets them.
RECURSIVE ReportLoop(_, _)
ReportMerge(doc_path, s, statuses, rest) ==
    [panicked     |-> rest.panicked,
     scanned      |-> {doc_path} \cup rest.scanned,
     warned       |-> (IF s.kind = "broken" THEN {doc_path} ELSE {}) \cup rest.warned,
     has_problems |-> rest.has_problems
                      \/ \E i \in 1..Len(statuses) : statuses[i] \in {"Drifted", "Missing"}]

ReportStep(fs, docs, s) ==
    IF s.kind = "panic"
    THEN [panicked |-> TRUE, scanned |-> {}, warned |-> {}, has_problems |-> FALSE]
    ELSE ReportMerge(Head(docs), s,
                     [i \in 1..Len(s.entries) |-> report_check_entry(fs, s.resolver, s.entries[i])],
                     ReportLoop(fs, Tail(docs)))

ReportLoop(fs, docs) ==
    IF docs = <<>>
    THEN [panicked |-> FALSE, scanned |-> {}, warned |-> {}, has_problems |-> FALSE]
    ELSE ReportStep(fs, docs, ScanDoc(fs, Head(docs)))

\* commands::report::run
report_run(fs, r) ==
    Batch(IF r.panicked THEN "Panic" ELSE IF r.has_problems THEN "Exit1" ELSE "Ok",
          fs, r.scanned, r.warned, r.warned, {}, {}, {})

\* Lines 39-71 of validate::run: an entry is valid when it has a hash and
\* its pattern resolves to some path.
EntryValid(fs, resolver, e) ==
    /\ e.hash.some
    /\ resolve(fs, resolver, e.pattern).tag = "Ok"
    /\ resolve(fs, resolver, e.pattern).paths # <<>>

\* Lines 13-72 of validate::run.
RECURSIVE ValidateLoop(_, _)
ValidateMerge(doc_path, s, valid, rest) ==
    [panicked  |-> rest.panicked,
     scanned   |-> {doc_path} \cup rest.scanned,
     warned    |-> (IF s.kind = "broken" THEN {doc_path} ELSE {}) \cup rest.warned,
     all_valid |-> rest.all_valid /\ s.kind # "broken" /\ valid,
     checked   |-> rest.checked
                   \/ s.kind = "tracked" \/ (s.kind = "broken" /\ s.err = "ProjectRootNotFound")]

ValidateStep(fs, docs, s) ==
    IF s.kind = "panic"
    THEN [panicked |-> TRUE, scanned |-> {}, warned |-> {}, all_valid |-> TRUE, checked |-> FALSE]
    ELSE ValidateMerge(Head(docs), s,
                       \A i \in 1..Len(s.entries) : EntryValid(fs, s.resolver, s.entries[i]),
                       ValidateLoop(fs, Tail(docs)))

ValidateLoop(fs, docs) ==
    IF docs = <<>>
    THEN [panicked |-> FALSE, scanned |-> {}, warned |-> {}, all_valid |-> TRUE, checked |-> FALSE]
    ELSE ValidateStep(fs, docs, ScanDoc(fs, Head(docs)))

\* commands::validate::run
validate_run(fs, r) ==
    Batch(IF r.panicked THEN "Panic" ELSE IF r.checked /\ ~r.all_valid THEN "Exit1" ELSE "Ok",
          fs, r.scanned, r.warned, r.warned, {}, {}, {})

\* ------------------------------------------------------ the command run
(***************************************************************************)
(* Commands are run one after another on the tree, and the watched file    *)
(* ./p/a is edited in between.  `call` holds the last command and `out`    *)
(* what it left behind.                                                    *)
(***************************************************************************)

BODY == <<"B">> \o NL

\* A tracked document with the given entry lines.
TrackedWith(entry_lines) == DELIM \o NL \o DW_KEY \o NL \o entry_lines \o DELIM \o NL \o BODY

D_PLAIN   == BODY
D_FOREIGN == DELIM \o NL \o TITLE \o NL \o DELIM \o NL \o BODY
D_TRACKED == TrackedWith(<<>>)
D_STALE   == TrackedWith(EntryText(2, "dq", <<"a">>, TRUE) \o NL)
D_WIDE    == TrackedWith(EntryText(2, "wide", <<"a">>, TRUE) \o NL)
D_NOHASH  == TrackedWith(EntryText(2, "dq", <<"a">>, FALSE) \o NL)
D_FLAT    == TrackedWith(EntryText(0, "plain", <<"a">>, TRUE) \o NL)
D_QUOTED  == DELIM \o NL \o DQ \o DW_NAME \o DQ \o COLON \o NL
                 \o EntryText(2, "dq", <<"a">>, TRUE) \o NL \o DELIM \o NL \o BODY
D_UNCLOSED == DELIM \o NL \o TITLE \o NL
D_TWICE   == TrackedWith(EntryText(2, "dq", <<"a">>, TRUE) \o NL
                             \o EntryText(2, "dq", <<"a">>, TRUE) \o NL)

FirstDocs  == {D_PLAIN, D_FOREIGN, D_TRACKED, D_STALE, D_WIDE, D_NOHASH, D_FLAT, D_QUOTED,
               D_UNCLOSED, D_TWICE}
SecondDocs == {File(D_STALE), File(D_TRACKED), File(D_PLAIN), File(D_UNCLOSED), Locked(D_STALE)}

WatchedStates == {File(<<"x">>), File(<<"y">>)}

\* The trees a run starts from: every pair of documents beside a readable
\* watched file, and the trees in which ./q has no project root, or the
\* watched file is missing or unreadable.
CmdWorlds ==
    {WorldOf(pa, Absent, Absent, Absent, Dir, File(d1), d2) :
        pa \in WatchedStates, d1 \in FirstDocs, d2 \in SecondDocs}
    \cup {WorldOf(File(<<"x">>), Absent, Absent, Absent, Absent, File(d1), File(D_STALE)) :
            d1 \in {D_STALE, D_TRACKED}}
    \cup {WorldOf(pa, Absent, Absent, Absent, Dir, File(d1), File(D_STALE)) :
            pa \in {Absent, Locked(<<"x">>)}, d1 \in {D_STALE, D_TRACKED}}

\* init and add are run on the first document.
DocFiles    == {DOC1}
AddPatterns == {<<"a">>, <<"?">>, <<"z">>}

Command(name, doc_file, pattern) == [fn |-> name, doc_file |-> doc_file, pattern |-> pattern]

Init ==
    /\ fsys \in CmdWorlds
    /\ call = NoCall
    /\ out = NoOut
    /\ doc = <<>>
    /\ fm = NoParse
    /\ tracked = "unset"
    /\ entry = NoEntry
    /\ verdict = NoVerdict

\* What is kept of a command's result beside the tree.
Outcome(result) == [f \in DOMAIN result \ {"fs"} |-> result[f]]

Ran(command, result) ==
    /\ call' = command
    /\ out' = Outcome(result)
    /\ fsys' = result.fs
    /\ UNCHANGED <<entry, verdict>>
    /\ UNCHANGED engineVars

InitCmd ==
    \E doc_file \in DocFiles :
        Ran(Command("init", doc_file, <<>>), init_run(fsys, doc_file))

AddCmd ==
    \E doc_file \in DocFiles, watch_pattern \in AddPatterns :
        Ran(Command("add", doc_file, watch_pattern), add_run(fsys, doc_file, watch_pattern))

\* check with the scan done: the user selects, the updates are applied. The
\* outcome keeps how many drifted entries were listed and which were picked.
CheckSelect(scan) ==
    \E selections \in SUBSET (1..Len(scan.drifted)) :
        \E order \in Orders(SelectedDocs(scan.drifted, selections)) :
            Ran(Command("check", <<>>, <<>>),
                [listed |-> Len(scan.drifted), picked |-> selections]
                    @@ check_run(fsys, scan, selections,
                                 ApplyUpdates(fsys, order, scan.drifted, selections)))

CheckCmd == CheckSelect(ScanLoop(fsys, find_markdown_files(fsys)))

ReportCmd ==
    Ran(Command("report", <<>>, <<>>),
        report_run(fsys, ReportLoop(fsys, find_markdown_files(fsys))))

ValidateCmd ==
    Ran(Command("validate", <<>>, <<>>),
        validate_run(fsys, ValidateLoop(fsys, find_markdown_files(fsys))))

\* Somebody edits or removes the watched file ./p/a.
EditWatched ==
    /\ fsys[N_PA] \in WatchedStates
    /\ \E pa \in WatchedStates \ {fsys[N_PA]} : fsys' = [fsys EXCEPT ![N_PA] = pa]
    /\ call' = Command("edit", <<>>, <<>>)
    /\ out' = NoOut
    /\ UNCHANGED <<entry, verdict>>
    /\ UNCHANGED engineVars

Next ==
    \/ InitCmd
    \/ AddCmd
    \/ CheckCmd
    \/ ReportCmd
    \/ ValidateCmd
    \/ EditWatched

Spec == Init /\ [][Next]_vars

\* --------------------------------------------------------------- claims

\* What the tree holds for the evaluated entry.
EntryPaths == resolve(fsys, PathResolverNew(fsys, DOC1), entry.pattern)
EntryDigest == hash_pattern(fsys, PathResolverNew(fsys, DOC1), entry.pattern)

Evaluated == call.fn \in {"check_entry", "report_check_entry"}

\* C1: an entry whose hash is absent is classified Invalid, by check's and by
\* report's evaluator, whether its pattern resolves to paths, to nothing or
\* fails to resolve; it is never Current, Drifted or Missing.
C1_AbsentHashIsInvalid ==
    (Evaluated /\ ~entry.hash.some) => (verdict.status = "Invalid" /\ ~verdict.hash.some)

\* An entry without hash whose pattern fails to resolve has been evaluated.
C1_Witness ==
    /\ call.fn = "check_entry"
    /\ ~entry.hash.some
    /\ EntryPaths.tag = "Err"
    /\ verdict.status = "Invalid"

\* C2: an entry with a stored hash is Missing when resolve fails or yields
\* nothing or when hash_pattern fails; otherwise it is Current exactly when
\* the fresh digest equals the stored hash, and Drifted otherwise, with the
\* fresh digest returned alongside.
C2_StoredHashVerdict ==
    (call.fn = "check_entry" /\ entry.hash.some) =>
        IF EntryPaths.tag # "Ok" \/ EntryPaths.paths = <<>> \/ EntryDigest.tag # "Ok"
        THEN verdict.status = "Missing"
        ELSE /\ verdict.status \in {"Current", "Drifted"}
             /\ verdict.status = "Current" <=> EntryDigest.text = entry.hash.val
             /\ verdict.status = "Drifted" => verdict.hash = SomeHash(EntryDigest.text)

\* A glob over several files was found Drifted against a digest taken from an
\* earlier tree.
C2_Witness ==
    /\ call.fn = "check_entry"
    /\ entry.pattern = <<"?">>
    /\ entry.hash.some /\ entry.hash.val # OldHash
    /\ Len(EntryPaths.paths) > 1
    /\ verdict.status = "Drifted"
    /\ verdict.hash.some /\ verdict.hash.val # entry.hash.val

\* C7: in a batch run a failure that concerns one document does not stop the
\* others: every document is scanned, every other document whose updates
\* were selected is written, and the failures met are reported.
C7_FailureNeverAbortsOthers ==
    (call.fn \in {"check", "report", "validate"}) =>
        /\ out.scanned = Range(find_markdown_files(fsys))
        /\ \A d \in out.selected \ out.failed : d \in out.written
        /\ out.broken \subseteq out.warned

\* The conditions under which add has to fail, read off the tree.
AddHashFails(fs, resolver, watch_pattern) ==
    \/ ~resolver.ok
    \/ resolve(fs, resolver, watch_pattern).tag # "Ok"
    \/ resolve(fs, resolver, watch_pattern).paths = <<>>
    \/ hash_pattern(fs, resolver, watch_pattern).tag # "Ok"

AddBlockFails(content, f, watch_pattern) ==
    \/ f.tag \in {"None", "Err"}
    \/ f.tag = "Some" /\ ~has_driftwatcher(f)
    \/ f.tag = "Some" /\ \E i \in 1..Len(f.entries) : f.entries[i].pattern = watch_pattern
    \/ add_entry(content, watch_pattern, NewHash).tag = "Err"

AddMustFail(fs, doc_file, watch_pattern) ==
    \/ AddBlockFails(ReadFile(fs, doc_file).text, parse(ReadFile(fs, doc_file).text), watch_pattern)
    \/ AddHashFails(fs, PathResolverNew(fs, doc_file), watch_pattern)

\* C8: add writes the document only on success: when the document is not
\* initialized, the pattern is already listed, resolves to no file, or
\* hashing or insertion fails, add returns an error, and whenever add does
\* not succeed the tree, the document included, is what it was.
C8_AddWritesOnlyOnSuccess ==
    [][call'.fn = "add" =>
          /\ AddMustFail(fsys, call'.doc_file, call'.pattern) => out'.tag = "Err"
          /\ out'.tag # "Ok" => fsys' = fsys]_vars

\* add has failed at the insertion, after the pattern was resolved and hashed.
C8_Witness ==
    /\ call.fn = "add"
    /\ out.tag = "Err"
    /\ out.err = "BlockNotFound"
    /\ ~AddHashFails(fsys, PathResolverNew(fsys, call.doc_file), call.pattern)
    /\ ReadFile(fsys, call.doc_file) = Ok(D_QUOTED)

\* The key of a line that is a sequence item, as YAML reads it.
ItemSplit(line) ==
    IF IsItem(trim(line)) THEN KeySplit(trim_start(SliceFrom(trim(line), 1))) ELSE NoKey

\* The line is a sequence item whose key is `p`, in any quoting.
IsItemOf(line, p) ==
    /\ ItemSplit(line).ok
    /\ ItemSplit(line).key = p
    /\ starts_with(trim_start(ItemSplit(line).after), COLON)

ItemLines(text, p) == {k \in 1..Len(lines(text)) : IsItemOf(lines(text)[k], p)}

HasEntry(text, p) ==
    /\ parse(text).tag = "Some"
    /\ \E k \in 1..Len(parse(text).entries) : parse(text).entries[k].pattern = p

\* The length of the longest common prefix of two texts.
CommonPrefix(s, t) ==
    Max({n \in 0..Min({Len(s), Len(t)}) : SubSeq(s, 1, n) = SubSeq(t, 1, n)})

NoLineBreak(s) == \A i \in 1..Len(s) : s[i] \notin {"\n", "\r"}

\* Two texts are equal except inside one line: they share a prefix and a
\* suffix, and what lies between holds no line terminator in either.
SameOutsideOneLine(s, t) ==
    LET a == CommonPrefix(s, t)
    IN  \E b \in 0..(Min({Len(s), Len(t)}) - a) :
            /\ SubSeq(s, Len(s) - b + 1, Len(s)) = SubSeq(t, Len(t) - b + 1, Len(t))
            /\ NoLineBreak(SubSeq(s, a + 1, Len(s) - b))
            /\ NoLineBreak(SubSeq(t, a + 1, Len(t) - b))

\* C3: for a document with a metadata block and a pattern present in it,
\* update_entry returns a text equal to the document everywhere outside the
\* targeted line: the other lines, the line terminators and the end of the
\* document are unchanged.
C3_UpdateKeepsTheRest ==
    (call.fn = "update_entry" /\ out.tag = "Ok" /\ HasEntry(doc, call.pattern))
        => SameOutsideOneLine(doc, out.text)

\* The line up to and including the colon after its key: indentation, dash
\* and the key as written.
KeyPart(line) ==
    Slice(line, 0, Len(line) - Len(trim_start(ItemSplit(line).after)) + 1)

\* C4: update_entry targets the first line that is a sequence item whose key
\* is the pattern, and rewrites only the hash on it: every other line is
\* unchanged and the line keeps its indentation and its key as written.
C4_UpdateRewritesOnlyTheHash ==
    (call.fn = "update_entry" /\ out.tag = "Ok")
        => LET old == lines(doc)
               new == lines(out.text)
               k   == Min(ItemLines(doc, call.pattern))
           IN  /\ ItemLines(doc, call.pattern) # {}
               /\ Len(new) = Len(old)
               /\ \A j \in 1..Len(old) : j # k => new[j] = old[j]
               /\ new[k] = KeyPart(old[k]) \o <<" ">> \o call.hash

\* C5: for a document whose block parses, add_entry followed by parse
\* succeeds, and the entries are the inserted one followed by the previous
\* entries in their order.
C5_InsertedEntryIsFirst ==
    (call.fn = "add_entry" /\ parse(doc).tag = "Some")
        => /\ out.tag = "Ok"
           /\ fm # NoParse =>
                /\ fm.tag = "Some"
                /\ fm.entries = <<WatchEntry(call.pattern, SomeHash(call.hash))>>
                                    \o parse(doc).entries

\* C6: update_entry with a pattern for which no line is a matching sequence
\* item returns EntryNotFound and no text.
C6_UpdateOfAbsentPatternFails ==
    (call.fn = "update_entry" /\ ItemLines(doc, call.pattern) = {})
        => out = Err("EntryNotFound")

C6_Witness ==
    /\ call.fn = "update_entry"
    /\ parse(doc).tag = "Some"
    /\ parse(doc).entries # <<>>
    /\ ItemLines(doc, call.pattern) = {}
    /\ out.err = "EntryNotFound"

\* The reserved key is a key of the block's top-level mapping.
HasReservedKey(raw_yaml) ==
    \E i \in 1..Len(YamlLines(raw_yaml)) :
        /\ YamlLines(raw_yaml)[i].indent = YamlLines(raw_yaml)[1].indent
        /\ ~YamlLines(raw_yaml)[i].item
        /\ YamlLines(raw_yaml)[i].kv.ok
        /\ YamlLines(raw_yaml)[i].kv.key = DW_NAME

\* C9: has_driftwatcher is true for a block that has the reserved key, also
\* with zero entries, and false for a block in which the reserved key is not
\* a key.
C9_TrackedIffReservedKey ==
    (call = NoCall /\ tracked # "unset")
        => (tracked = "yes" <=> HasReservedKey(fm.raw_yaml))

IsForeign(text) == parse(text).tag = "Some" /\ ~has_driftwatcher(parse(text))

\* The text `t` is `s` with one reserved-key line inserted immediately before
\* the closing delimiter, which ends at offset `end_pos` of `s`.
KeyLineInserted(s, t, end_pos) ==
    t = Slice(s, 0, end_pos - 3) \o DW_KEY \o NL \o SliceFrom(s, end_pos - 3)

\* C10: for a document with a foreign block, add_driftwatcher_to_existing
\* inserts one reserved-key line immediately before the closing delimiter
\* and keeps every other line; parsing the result gives a tracked block with
\* zero entries.
C10_PromoteMakesTrackedBlock ==
    (call.fn = "add_driftwatcher_to_existing" /\ IsForeign(doc))
        => /\ out.tag = "Ok"
           /\ KeyLineInserted(doc, out.text, parse(doc).end_pos)
           /\ fm # NoParse => (fm.tag = "Some" /\ fm.entries = <<>>)
           /\ tracked # "unset" => tracked = "yes"

\* The offsets at which a closing delimiter stands on a line of its own: a
\* line break, the delimiter, and then a line break or the end of the text.
OwnLineCloses(text) ==
    {i \in 3..(Len(text) - 4) :
        /\ Slice(text, i, i + 4) = NL \o DELIM
        /\ (i + 4 = Len(text) \/ text[i + 5] \in {"\n", "\r"})}

\* C11: parse returns absent exactly when the text does not begin with the
\* opening delimiter; otherwise the block ends at the first closing delimiter
\* that stands on a line of its own: with none parse fails with
\* MalformedBlock, and on success end_pos is the offset just after that
\* delimiter and raw_yaml the text between the two delimiters.
C11_BlockEndsAtOwnLineDelimiter ==
    (call = NoCall /\ fm # NoParse) =>
        /\ fm.tag = "None" <=> ~starts_with(doc, DELIM)
        /\ (starts_with(doc, DELIM) /\ OwnLineCloses(doc) = {})
               => fm = ParseErr("MalformedBlock")
        /\ (fm.tag = "Some" /\ OwnLineCloses(doc) # {})
               => /\ fm.end_pos = Min(OwnLineCloses(doc)) + 4
                  /\ fm.raw_yaml = Slice(doc, 4, Min(OwnLineCloses(doc)))

\* The resolved paths that are not directories, in order.
NonDirectories(fs, paths) == SelectSeq(paths, LAMBDA q : ~is_dir(fs, q))

\* C12: hash_pattern fails with NoMatch when the pattern resolves to nothing;
\* for one resolved path it is hash_directory of a directory and hash_file of
\* anything else; for several it is hash_files of the paths that are not
\* directories, and NoMatch when none remains.
C12_HashPatternCases ==
    (call.fn = "hash_pattern" /\ EntryPaths.tag = "Ok") =>
        IF EntryPaths.paths = <<>> THEN out = Err("NoMatch")
        ELSE IF Len(EntryPaths.paths) = 1
             THEN out = IF Node(fsys, NodeOf(EntryPaths.paths[1])).kind = "dir"
                        THEN hash_directory(fsys, EntryPaths.paths[1])
                        ELSE hash_file(fsys, EntryPaths.paths[1])
        ELSE IF NonDirectories(fsys, EntryPaths.paths) = <<>> THEN out = Err("NoMatch")
        ELSE out = hash_files(fsys, NonDirectories(fsys, EntryPaths.paths))

\* A glob that matched files and a directory was hashed.
C12_Witness ==
    /\ call.fn = "hash_pattern"
    /\ Len(EntryPaths.paths) > Len(NonDirectories(fsys, EntryPaths.paths))
    /\ Len(NonDirectories(fsys, EntryPaths.paths)) > 1
    /\ out.tag = "Ok"

\* The sub-pattern of the entry, the directory it is resolved against as a
\* node, and the path resolve joins from them.
RootPrefixed == starts_with(entry.pattern, ROOT_PREFIX)
SubPattern == IF RootPrefixed THEN SliceFrom(entry.pattern, 6) ELSE entry.pattern
HasMeta(t) == \E i \in 1..Len(t) : t[i] \in {"*", "?", "["}

\* The ancestors of the document's directory, itself included, that hold the
\* version-control marker.
MarkedAncestors ==
    {k \in 0..Len(N_P) : Node(fsys, SubSeq(N_P, 1, k) \o <<GIT_DIR>>).kind # "none"}
NearestRoot == SubSeq(N_P, 1, Max(MarkedAncestors))

BaseNode == IF RootPrefixed THEN NearestRoot ELSE N_P
BaseText == IF RootPrefixed THEN AbsText(NearestRoot) ELSE <<".", "/", "p">>

\* The existing children of the base directory that the sub-pattern matches.
Matches ==
    {n \in DOMAIN fsys :
        /\ Len(n) = Len(BaseNode) + 1
        /\ SubSeq(n, 1, Len(BaseNode)) = BaseNode
        /\ fsys[n].kind # "none"
        /\ WildMatch(SubPattern, n[Len(n)])}
Visible(n) == \A k \in 1..Len(n) : n[k][1] # "."

\* C13: resolve expands a sub-pattern as a glob exactly when it contains "*",
\* "?" or "[": without one it yields the one joined path when that exists and
\* nothing, not an error, when it does not; with one, the paths it yields are
\* the matches without those that have a dot-prefixed segment.
C13_LexicalLiteralOrGlob ==
    call.fn = "resolve" =>
        IF ~HasMeta(SubPattern)
        THEN out = [tag |-> "Ok",
                    paths |-> IF Node(fsys, BaseNode \o <<SubPattern>>).kind # "none"
                              THEN <<BaseText \o <<"/">> \o SubPattern>> ELSE <<>>]
        ELSE out.tag = "Ok" =>
                /\ {NodeOf(out.paths[i]) : i \in 1..Len(out.paths)}
                       = {n \in Matches : Visible(n)}
                /\ Len(out.paths) = Cardinality({n \in Matches : Visible(n)})

\* A glob whose matches include a hidden one was resolved to some paths.
C13_Witness ==
    /\ call.fn = "resolve"
    /\ HasMeta(SubPattern)
    /\ \E n \in Matches : ~Visible(n)
    /\ out.tag = "Ok" /\ out.paths # <<>>

\* The result of a literal sub-pattern that does not exist is the empty list.
C13_WitnessEmptyLiteral ==
    /\ call.fn = "resolve"
    /\ ~HasMeta(SubPattern)
    /\ out = [tag |-> "Ok", paths |-> <<>>]

\* C14: project-root discovery returns the nearest ancestor of the document's
\* directory, itself included, that holds the version-control marker, and
\* fails with ProjectRootNotFound when none up to the root does; a pattern
\* that starts with "$ROOT/" is resolved against that directory without the
\* prefix and every other pattern against the document's directory.
C14_RootDiscoveryAndPrefix ==
    /\ call.fn = "new" =>
           out = IF MarkedAncestors = {} THEN Err("ProjectRootNotFound")
                 ELSE Ok(AbsText(NearestRoot))
    /\ call.fn = "resolve" => out = resolve_from(fsys, BaseText, SubPattern)

\* A "$ROOT/" pattern was resolved to a path in a root above the document's
\* directory.
C14_Witness ==
    /\ call.fn = "resolve"
    /\ RootPrefixed
    /\ NearestRoot = N_W
    /\ out.tag = "Ok" /\ out.paths = <<AbsText(N_WA)>>

\* ------------------------------------------------------------ hasher run
\* hash_files on every ordering of the files of a small tree: ./b, ./c, ./d.x
\* and ./d/a, the first with a content that spells a path line.

P_B  == <<"b">>
P_C  == <<"c">>
P_DX == <<"d", ".", "x">>
P_DA == <<"d", "/", "a">>
HashedPaths == {P_B, P_C, P_DX, P_DA}

HashWorlds ==
    {(NodeOf(P_B) :> b) @@ (NodeOf(P_C) :> c) @@ (NodeOf(P_DX) :> dx) @@ (NodeOf(P_DA) :> da)
        @@ (N_W :> Dir) @@ (NodeOf(<<"d">>) :> Dir) :
        b \in {Absent, File(<<>>), File(<<"x">>), File(NL \o P_C \o NL)},
        c \in {Absent, File(<<>>), File(<<"x">>)},
        dx \in {Absent, File(<<"x">>)},
        da \in {Absent, File(<<"x">>)}}

\* The files of a tree, and the orderings of a set of paths.
Present(fs) == {path \in HashedPaths : is_file(fs, path)}
Orderings(S) == {order \in [1..Cardinality(S) -> S] : Range(order) = S}

HashInit ==
    /\ fsys \in HashWorlds
    /\ call = NoCall
    /\ out = NoOut
    /\ entry = NoEntry
    /\ verdict = NoVerdict
    /\ doc = <<>>
    /\ fm = NoParse
    /\ tracked = "unset"

HashFiles ==
    /\ call = NoCall
    /\ \E paths \in Orderings(Present(fsys)) :
        /\ call' = [fn |-> "hash_files", paths |-> paths]
        /\ out' = hash_files(fsys, paths)
    /\ UNCHANGED <<fsys, entry, verdict>>
    /\ UNCHANGED engineVars

HashNext == HashFiles

HashSpec == HashInit /\ [][HashNext]_vars

\* A set of paths in the byte-wise order of their texts.
RECURSIVE SortByText(_)
SortByText(S) ==
    IF S = {} THEN <<>>
    ELSE LET least == CHOOSE x \in S : \A y \in S \ {x} : TextLess(x, y)
         IN  <<least>> \o SortByText(S \ {least})

OrderInvariant ==
    \A other \in Orderings(Range(call.paths)) : hash_files(fsys, other) = out

FedOf(fs) == FedBytes(fs, SortPaths(Present(fs)))

\* C16: two file sets that differ in their paths or in the content of some
\* file are folded to different byte sequences by hash_files.
C16_FedBytesTellFileSetsApart ==
    (call.fn = "hash_files" /\ out.tag = "Ok") =>
        /\ out.text = Sha256Hex(FedOf(fsys))
        /\ \A other \in HashWorlds \ {fsys} : FedOf(other) # FedOf(fsys)

\* C17: after check has applied the updates for the drifted entries the user
\* selected, the next evaluation of the rewritten documents classifies every
\* selected entry Current; here for a user who selected every listed entry,
\* so that the next scan lists no drifted entry at all.
C17_SelectedEntriesBecomeCurrent ==
    (call.fn = "check" /\ out.tag = "Ok" /\ out.picked # {}
        /\ out.picked = 1..out.listed) =>
        ScanLoop(fsys, find_markdown_files(fsys)).drifted = <<>>

\* The stage of the first document, as parse and has_driftwatcher see it.
StageOf(f) ==
    IF f.tag = "None" THEN "NoBlock"
    ELSE IF f.tag # "Some" THEN "Malformed"
    ELSE IF has_driftwatcher(f) THEN "HasTrackedBlock"
    ELSE "HasForeignBlock"
Stage(fs) == StageOf(parse(fs[N_DOC1].data))

\* The text `new` is `old` with something inserted at one place.
Preserved(old, new) ==
    /\ Len(new) >= Len(old)
    /\ \E i \in 0..Len(old) :
        /\ Slice(new, 0, i) = Slice(old, 0, i)
        /\ SliceFrom(new, Len(new) - (Len(old) - i)) = SliceFrom(old, i)

\* C18: a successful init leaves the document in HasTrackedBlock with its
\* previous text preserved, writes nothing when it already was there, and no
\* successful init, add or check (update_entry) takes a document out of
\* HasTrackedBlock.
C18_StageOnlyMovesForward ==
    [][(call'.fn \in {"init", "add", "check"} /\ out'.tag = "Ok") =>
          /\ call'.fn = "init" =>
                /\ Stage(fsys') = "HasTrackedBlock"
                /\ Preserved(fsys[N_DOC1].data, fsys'[N_DOC1].data)
                /\ Stage(fsys) = "HasTrackedBlock" => fsys' = fsys
          /\ Stage(fsys) = "HasTrackedBlock" => Stage(fsys') = "HasTrackedBlock"]_vars

\* C19: parse is total: for every text it returns absent, a block or an
\* error value and never aborts, and so do add_driftwatcher_to_existing and
\* add_entry, which call it; in particular on a document whose opening
\* delimiter is immediately followed by the closing delimiter line.
C19_ParseIsTotal ==
    /\ fm # NoParse => fm.tag \in {"None", "Some", "Err"}
    /\ call.fn \in {"add_driftwatcher_to_existing", "add_entry"} => out.tag \in {"Ok", "Err"}


====
